---------------------------- MODULE Spec2Model ----------------------------
(***************************************************************************)
(* Model of network-interceptor-fix.py: a script that reads the text of    *)
(* network-interceptor.js, tests whether one literal block occurs in it,   *)
(* and if so substitutes another literal block and overwrites the file.    *)
(*                                                                         *)
(* Text is a sequence of Unicode code points.  The file on disk and the    *)
(* text in memory are kept apart: Python's text mode translates line       *)
(* endings on the way in (TextRead) and on the way out (TextWrite).        *)
(***************************************************************************)
EXTENDS FiniteSets, Integers, Sequences, TLC

\* The block searched for (src/network-interceptor-fix.py:6-17), as code points.
old_sensor_logic ==
  <<
    \* line 6: '  // Look for sensor keys (slabwgt, slabvwc, etc.)'
    32,32,47,47,32,76,111,111,107,32,102,111,114,32,115,101,110,115,111,114,32,107,101,121,115,32,40,115,108,97,98,119,103,116,44,32,115,108,97,98,118,119,99,44,32,101,116,99,46,41,10,
    \* line 7: '  if (nodeData.length === 0) {'
    32,32,105,102,32,40,110,111,100,101,68,97,116,97,46,108,101,110,103,116,104,32,61,61,61,32,48,41,32,123,10,
    \* line 8: '    console.log('\u26a0\ufe0f  [NETWORK] Node data array is empty');'
    32,32,32,32,99,111,110,115,111,108,101,46,108,111,103,40,39,9888,65039,32,32,91,78,69,84,87,79,82,75,93,32,78,111,100,101,32,100,97,116,97,32,97,114,114,97,121,32,105,115,32,101,109,112,116,121,39,41,59,10,
    \* line 9: '    return null;'
    32,32,32,32,114,101,116,117,114,110,32,110,117,108,108,59,10,
    \* line 10: '  }'
    32,32,125,10,
    \* line 11: '  '
    32,32,10,
    \* line 12: '  const firstEntry = nodeData[0];'
    32,32,99,111,110,115,116,32,102,105,114,115,116,69,110,116,114,121,32,61,32,110,111,100,101,68,97,116,97,91,48,93,59,10,
    \* line 13: '  const sensorKeys = Object.keys(firstEntry).filter(k => '
    32,32,99,111,110,115,116,32,115,101,110,115,111,114,75,101,121,115,32,61,32,79,98,106,101,99,116,46,107,101,121,115,40,102,105,114,115,116,69,110,116,114,121,41,46,102,105,108,116,101,114,40,107,32,61,62,32,10,
    \* line 14: '    k.toLowerCase().includes('slab') || '
    32,32,32,32,107,46,116,111,76,111,119,101,114,67,97,115,101,40,41,46,105,110,99,108,117,100,101,115,40,39,115,108,97,98,39,41,32,124,124,32,10,
    \* line 15: '    k.toLowerCase().includes('wgt') || '
    32,32,32,32,107,46,116,111,76,111,119,101,114,67,97,115,101,40,41,46,105,110,99,108,117,100,101,115,40,39,119,103,116,39,41,32,124,124,32,10,
    \* line 16: '    k.toLowerCase().includes('vwc')'
    32,32,32,32,107,46,116,111,76,111,119,101,114,67,97,115,101,40,41,46,105,110,99,108,117,100,101,115,40,39,118,119,99,39,41,10,
    \* line 17: '  );'
    32,32,41,59
    >>

\* The block substituted for it (src/network-interceptor-fix.py:19-49), as code points.
new_sensor_logic ==
  <<
    \* line 19: '  // Look for sensor keys (slabwgt, slabvwc, etc.)'
    32,32,47,47,32,76,111,111,107,32,102,111,114,32,115,101,110,115,111,114,32,107,101,121,115,32,40,115,108,97,98,119,103,116,44,32,115,108,97,98,118,119,99,44,32,101,116,99,46,41,10,
    \* line 20: '  if (nodeData.length === 0) {'
    32,32,105,102,32,40,110,111,100,101,68,97,116,97,46,108,101,110,103,116,104,32,61,61,61,32,48,41,32,123,10,
    \* line 21: '    console.log('\u26a0\ufe0f  [NETWORK] Node data array is empty');'
    32,32,32,32,99,111,110,115,111,108,101,46,108,111,103,40,39,9888,65039,32,32,91,78,69,84,87,79,82,75,93,32,78,111,100,101,32,100,97,116,97,32,97,114,114,97,121,32,105,115,32,101,109,112,116,121,39,41,59,10,
    \* line 22: '    return null;'
    32,32,32,32,114,101,116,117,114,110,32,110,117,108,108,59,10,
    \* line 23: '  }'
    32,32,125,10,
    \* line 24: '  '
    32,32,10,
    \* line 25: '  // Find first non-empty entry (skip empty objects at the start)'
    32,32,47,47,32,70,105,110,100,32,102,105,114,115,116,32,110,111,110,45,101,109,112,116,121,32,101,110,116,114,121,32,40,115,107,105,112,32,101,109,112,116,121,32,111,98,106,101,99,116,115,32,97,116,32,116,104,101,32,115,116,97,114,116,41,10,
    \* line 26: '  let firstEntry = null;'
    32,32,108,101,116,32,102,105,114,115,116,69,110,116,114,121,32,61,32,110,117,108,108,59,10,
    \* line 27: '  for (let i = 0; i < Math.min(10, nodeData.length); i++) {'
    32,32,102,111,114,32,40,108,101,116,32,105,32,61,32,48,59,32,105,32,60,32,77,97,116,104,46,109,105,110,40,49,48,44,32,110,111,100,101,68,97,116,97,46,108,101,110,103,116,104,41,59,32,105,43,43,41,32,123,10,
    \* line 28: '    if (nodeData[i] && Object.keys(nodeData[i]).length > 1) { // More than just "timestamp"'
    32,32,32,32,105,102,32,40,110,111,100,101,68,97,116,97,91,105,93,32,38,38,32,79,98,106,101,99,116,46,107,101,121,115,40,110,111,100,101,68,97,116,97,91,105,93,41,46,108,101,110,103,116,104,32,62,32,49,41,32,123,32,47,47,32,77,111,114,101,32,116,104,97,110,32,106,117,115,116,32,34,116,105,109,101,115,116,97,109,112,34,10,
    \* line 29: '      firstEntry = nodeData[i];'
    32,32,32,32,32,32,102,105,114,115,116,69,110,116,114,121,32,61,32,110,111,100,101,68,97,116,97,91,105,93,59,10,
    \* line 30: '      if (i > 0) {'
    32,32,32,32,32,32,105,102,32,40,105,32,62,32,48,41,32,123,10,
    \* line 31: '        console.log(`   \u2192 Skipped ${i} empty entries, using entry [${i}]`);'
    32,32,32,32,32,32,32,32,99,111,110,115,111,108,101,46,108,111,103,40,96,32,32,32,8594,32,83,107,105,112,112,101,100,32,36,123,105,125,32,101,109,112,116,121,32,101,110,116,114,105,101,115,44,32,117,115,105,110,103,32,101,110,116,114,121,32,91,36,123,105,125,93,96,41,59,10,
    \* line 32: '      }'
    32,32,32,32,32,32,125,10,
    \* line 33: '      break;'
    32,32,32,32,32,32,98,114,101,97,107,59,10,
    \* line 34: '    }'
    32,32,32,32,125,10,
    \* line 35: '  }'
    32,32,125,10,
    \* line 36: '  '
    32,32,10,
    \* line 37: '  if (!firstEntry) {'
    32,32,105,102,32,40,33,102,105,114,115,116,69,110,116,114,121,41,32,123,10,
    \* line 38: '    console.log('\u26a0\ufe0f  [NETWORK] All entries are empty');'
    32,32,32,32,99,111,110,115,111,108,101,46,108,111,103,40,39,9888,65039,32,32,91,78,69,84,87,79,82,75,93,32,65,108,108,32,101,110,116,114,105,101,115,32,97,114,101,32,101,109,112,116,121,39,41,59,10,
    \* line 39: '    return null;'
    32,32,32,32,114,101,116,117,114,110,32,110,117,108,108,59,10,
    \* line 40: '  }'
    32,32,125,10,
    \* line 41: '  '
    32,32,10,
    \* line 42: '  // Look for sensor keys with flexible pattern matching (handles suffixes like "_1", "_2")'
    32,32,47,47,32,76,111,111,107,32,102,111,114,32,115,101,110,115,111,114,32,107,101,121,115,32,119,105,116,104,32,102,108,101,120,105,98,108,101,32,112,97,116,116,101,114,110,32,109,97,116,99,104,105,110,103,32,40,104,97,110,100,108,101,115,32,115,117,102,102,105,120,101,115,32,108,105,107,101,32,34,95,49,34,44,32,34,95,50,34,41,10,
    \* line 43: '  const sensorKeys = Object.keys(firstEntry).filter(k => {'
    32,32,99,111,110,115,116,32,115,101,110,115,111,114,75,101,121,115,32,61,32,79,98,106,101,99,116,46,107,101,121,115,40,102,105,114,115,116,69,110,116,114,121,41,46,102,105,108,116,101,114,40,107,32,61,62,32,123,10,
    \* line 44: '    const lower = k.toLowerCase();'
    32,32,32,32,99,111,110,115,116,32,108,111,119,101,114,32,61,32,107,46,116,111,76,111,119,101,114,67,97,115,101,40,41,59,10,
    \* line 45: '    return (lower.includes('slabwgt') || '
    32,32,32,32,114,101,116,117,114,110,32,40,108,111,119,101,114,46,105,110,99,108,117,100,101,115,40,39,115,108,97,98,119,103,116,39,41,32,124,124,32,10,
    \* line 46: '            lower.includes('slabvwc') || '
    32,32,32,32,32,32,32,32,32,32,32,32,108,111,119,101,114,46,105,110,99,108,117,100,101,115,40,39,115,108,97,98,118,119,99,39,41,32,124,124,32,10,
    \* line 47: '            lower.includes('calslabvwc')) && '
    32,32,32,32,32,32,32,32,32,32,32,32,108,111,119,101,114,46,105,110,99,108,117,100,101,115,40,39,99,97,108,115,108,97,98,118,119,99,39,41,41,32,38,38,32,10,
    \* line 48: '           k !== 'timestamp';'
    32,32,32,32,32,32,32,32,32,32,32,107,32,33,61,61,32,39,116,105,109,101,115,116,97,109,112,39,59,10,
    \* line 49: '  });'
    32,32,125,41,59
    >>

\* The lines printed after the overwrite (src/network-interceptor-fix.py:57-60), one tuple of code points per printed line.
FixedMsg ==
  <<
    \* line 57: '\u2705 FIXED: Sensor key parser now handles:'
    <<9989,32,70,73,88,69,68,58,32,83,101,110,115,111,114,32,107,101,121,32,112,97,114,115,101,114,32,110,111,119,32,104,97,110,100,108,101,115,58>>,
    \* line 58: '   1. Empty objects at the start of array'
    <<32,32,32,49,46,32,69,109,112,116,121,32,111,98,106,101,99,116,115,32,97,116,32,116,104,101,32,115,116,97,114,116,32,111,102,32,97,114,114,97,121>>,
    \* line 59: '   2. Dynamic suffixes (slabwgt_1, slabwgt_2, etc.)'
    <<32,32,32,50,46,32,68,121,110,97,109,105,99,32,115,117,102,102,105,120,101,115,32,40,115,108,97,98,119,103,116,95,49,44,32,115,108,97,98,119,103,116,95,50,44,32,101,116,99,46,41>>,
    \* line 60: '   3. Both slabwgt and calslabvwc keys'
    <<32,32,32,51,46,32,66,111,116,104,32,115,108,97,98,119,103,116,32,97,110,100,32,99,97,108,115,108,97,98,118,119,99,32,107,101,121,115>>
  >>

\* The lines printed when the block is not found (src/network-interceptor-fix.py:62-63), one tuple of code points per printed line.
NotFoundMsg ==
  <<
    \* line 62: '\u274c Could not find target section'
    <<10060,32,67,111,117,108,100,32,110,111,116,32,102,105,110,100,32,116,97,114,103,101,116,32,115,101,99,116,105,111,110>>,
    \* line 63: '   Will need manual inspection'
    <<32,32,32,87,105,108,108,32,110,101,101,100,32,109,97,110,117,97,108,32,105,110,115,112,101,99,116,105,111,110>>
  >>
-----------------------------------------------------------------------------
(* Bounds of the model *)

\* A file is the concatenation of at most MaxChunks chunks.
MaxChunks == 2

\* The script is run at most MaxRuns times in succession on the same file.
MaxRuns == 2

-----------------------------------------------------------------------------
(* Text helpers *)

LF == 10
CR == 13

\* os.linesep of a POSIX platform, written for every "\n" by a text-mode file.
linesep == <<LF>>

\* The least element of a non-empty set of integers.
Min(S) == CHOOSE i \in S : \A j \in S : i <= j

\* Match that leaves the last character of sub uncompared.
Match_loose(s, sub, i) ==
  /\ i >= 1
  /\ i + Len(sub) - 1 <= Len(s)
  /\ \A k \in 1..(Len(sub) - 1) : s[i + k - 1] = sub[k]

\* sub occurs in s at (1-based) position i.
Match(s, sub, i) ==
  /\ i >= 1
  /\ i + Len(sub) - 1 <= Len(s)
  /\ \A k \in 1..Len(sub) : s[i + k - 1] = sub[k]

\* str.find(sub, start), 1-based: the lowest position >= start at which sub
\* occurs in s, and 0 where Python returns -1.
Find(s, sub, start) ==
  LET hits == {i \in start..(Len(s) - Len(sub) + 1) : Match(s, sub, i)}
  IN  IF hits = {} THEN 0 ELSE Min(hits)

\* `sub in s`
In(sub, s) == Find(s, sub, 1) # 0

\* The tail of str.replace(old, new) from position start on: each occurrence
\* found left to right is replaced and the search resumes after it.
RECURSIVE ReplaceFrom(_, _, _, _)
ReplaceFrom(s, old, new, start) ==
  LET i == Find(s, old, start)
  IN  IF i = 0
      THEN SubSeq(s, start, Len(s))
      ELSE SubSeq(s, start, i - 1) \o new \o ReplaceFrom(s, old, new, i + Len(old))

\* replace with its two blocks the wrong way round.
replace_swapped(s, old, new) == ReplaceFrom(s, new, old, 1)

\* replace that puts the new block in front of the old one and keeps the old.
replace_keeping(s, old, new) == ReplaceFrom(s, old, new \o old, 1)

\* str.replace(old, new, 1): the first occurrence only.
replace_first(s, old, new) ==
  LET i == Find(s, old, 1)
  IN  IF i = 0 THEN s
      ELSE SubSeq(s, 1, i - 1) \o new \o SubSeq(s, i + Len(old), Len(s))

\* str.replace(old, new) for a non-empty old.
replace(s, old, new) == ReplaceFrom(s, old, new, 1)

\* f.read() of a file opened with mode 'r': universal newlines, "\r\n" and a
\* lone "\r" both arrive as "\n".
TextRead(raw) ==
  LET marked == [i \in 1..Len(raw) |->
                   IF raw[i] = LF /\ i > 1 /\ raw[i - 1] = CR THEN -1
                   ELSE IF raw[i] = CR THEN LF
                   ELSE raw[i]]
      Kept(c) == c # -1
  IN  SelectSeq(marked, Kept)

\* f.write(text) of a file opened with mode 'w': every "\n" leaves as linesep.
RECURSIVE Join(_)
Join(parts) == IF parts = <<>> THEN <<>> ELSE Head(parts) \o Join(Tail(parts))

TextWrite(text) ==
  IF linesep = <<LF>> THEN text
  ELSE Join([i \in 1..Len(text) |-> IF text[i] = LF THEN linesep ELSE <<text[i]>>])

\* What print(line) hands to stdout: the line and the newline that ends it.
Printed(line) == line \o <<LF>>

\* print(line): what stdout has received after the call, given what it had
\* received before. Without a stdout (the script was started with file
\* descriptor 1 closed, sys.stdout is None) print returns having written
\* nothing.
print(stream, line, stdout_exists) ==
  IF stdout_exists THEN stream \o Printed(line) ELSE stream

\* What a block of print statements hands to stdout when none of them raises.
PrintedAll(lines) == Join([k \in 1..Len(lines) |-> Printed(lines[k])])

\* The print statements of the two blocks, one label per statement.
FixedPc == <<"print_57", "print_58", "print_59", "print_60">>
NotFoundPc == <<"print_62", "print_63">>

-----------------------------------------------------------------------------
(* Files the script is run on *)

\* The part of old_sensor_logic that new_sensor_logic starts with too, and the rest.
SharedLen == 167
OldHead == SubSeq(old_sensor_logic, 1, SharedLen)
OldTail == SubSeq(old_sensor_logic, SharedLen + 1, Len(old_sensor_logic))

\* old_sensor_logic with its last character, ";", turned into ":".
NearMiss == [old_sensor_logic EXCEPT ![Len(old_sensor_logic)] = 58]

\* A line of other text, "x", ended the way Windows editors end lines.
OtherLine == <<120, CR, LF>>

\* The end of the old block followed by its beginning: before an occurrence
\* it puts a beginning of the block next to it, after an occurrence an end
\* of the block, and twice in a row it holds the whole block across the seam.
Seam == OldTail \o OldHead

Chunks ==
  { old_sensor_logic, new_sensor_logic, Seam, NearMiss, OtherLine }

InitialFiles ==
  { Join(cs) : cs \in UNION { [1..n -> Chunks] : n \in 0..MaxChunks } }

-----------------------------------------------------------------------------
(* State *)

VARIABLES
  file,      \* the characters of network-interceptor.js on disk
  content,   \* the script's variable `content`
  pc,        \* the statement the script is at
  out,       \* the characters handed to stdout so far in this run
  run,       \* which run of the script this is
  file0,     \* the file as it was when this run started
  source,    \* the text f.read() returned in this run
  trace,     \* the statements executed so far in this run
  prev_fixed, \* whether the previous run printed the whole success report
  has_stdout \* whether this run was started with a stdout (sys.stdout is not None)

vars == <<file, content, pc, out, run, file0, source, trace, prev_fixed, has_stdout>>

Init ==
  /\ file \in InitialFiles
  /\ content = <<>>
  /\ pc = "read"
  /\ out = <<>>
  /\ run = 1
  /\ file0 = file
  /\ source = <<>>
  /\ trace = <<>>
  /\ prev_fixed = FALSE
  /\ has_stdout \in BOOLEAN

\* Lines 2-3: open the file for reading and read all of it.
Read ==
  /\ pc = "read"
  /\ content' = TextRead(file)
  /\ source' = TextRead(file)
  /\ pc' = "test"
  /\ trace' = Append(trace, "read")
  /\ UNCHANGED <<file, out, run, file0, prev_fixed, has_stdout>>

\* ReadFail with the error swallowed: the script goes on with an empty text.
ReadFail_swallowed ==
  /\ pc = "read"
  /\ pc' = "test"
  /\ trace' = Append(trace, "read_error")
  /\ UNCHANGED <<file, content, out, run, file0, source, prev_fixed, has_stdout>>

\* Lines 2-3: the file is missing or unreadable; open() or read() raises and
\* nothing catches it.
ReadFail ==
  /\ pc = "read"
  /\ pc' = "fatal"
  /\ trace' = Append(trace, "read_error")
  /\ UNCHANGED <<file, content, out, run, file0, source, prev_fixed, has_stdout>>

\* Test with the condition negated.
Test_inverted ==
  /\ pc = "test"
  /\ pc' = IF In(old_sensor_logic, content) THEN NotFoundPc[1] ELSE "replace"
  /\ trace' = Append(trace, "test")
  /\ UNCHANGED <<file, content, out, run, file0, source, prev_fixed, has_stdout>>

\* Test that takes the replacing branch whatever the text holds.
Test_always ==
  /\ pc = "test"
  /\ pc' = "replace"
  /\ trace' = Append(trace, "test")
  /\ UNCHANGED <<file, content, out, run, file0, source, prev_fixed, has_stdout>>

\* Line 51: if old_sensor_logic in content
Test ==
  /\ pc = "test"
  /\ pc' = IF In(old_sensor_logic, content) THEN "replace" ELSE NotFoundPc[1]
  /\ trace' = Append(trace, "test")
  /\ UNCHANGED <<file, content, out, run, file0, source, prev_fixed, has_stdout>>

\* Line 52: content = content.replace(old_sensor_logic, new_sensor_logic)
Replace ==
  /\ pc = "replace"
  /\ content' = replace(content, old_sensor_logic, new_sensor_logic)
  /\ pc' = "open_w"
  /\ trace' = Append(trace, "replace")
  /\ UNCHANGED <<file, out, run, file0, source, prev_fixed, has_stdout>>

\* Line 54: open(..., 'w') truncates the file.
OpenWrite ==
  /\ pc = "open_w"
  /\ file' = <<>>
  /\ pc' = "write"
  /\ trace' = Append(trace, "open_w")
  /\ UNCHANGED <<content, out, run, file0, source, prev_fixed, has_stdout>>

\* Line 54: open(..., 'w') raises (no permission, read-only file system).
OpenWriteFail ==
  /\ pc = "open_w"
  /\ pc' = "fatal"
  /\ trace' = Append(trace, "open_w_error")
  /\ UNCHANGED <<file, content, out, run, file0, source, prev_fixed, has_stdout>>

\* Line 55 and the end of the with block: the text is written and the file closed.
Write ==
  /\ pc = "write"
  /\ file' = TextWrite(content)
  /\ pc' = FixedPc[1]
  /\ trace' = Append(trace, "write")
  /\ UNCHANGED <<content, out, run, file0, source, prev_fixed, has_stdout>>

\* WriteFail with the error swallowed: the script goes on to the success report.
WriteFail_swallowed ==
  /\ pc = "write"
  /\ \E n \in 0..Len(TextWrite(content)) :
       file' = SubSeq(TextWrite(content), 1, n)
  /\ pc' = FixedPc[1]
  /\ trace' = Append(trace, "write_error")
  /\ UNCHANGED <<content, out, run, file0, source, prev_fixed, has_stdout>>

\* Line 55 and the end of the with block: write() or the flush at close raises
\* (disk full, file size limit, unencodable character); what has reached the
\* disk is a prefix of the text, of any length.
WriteFail ==
  /\ pc = "write"
  /\ \E n \in 0..Len(TextWrite(content)) :
       file' = SubSeq(TextWrite(content), 1, n)
  /\ pc' = "fatal"
  /\ trace' = Append(trace, "write_error")
  /\ UNCHANGED <<content, out, run, file0, source, prev_fixed, has_stdout>>

\* PrintFixed without the else: the failure lines follow the success lines.
PrintFixed_fallthrough ==
  \E k \in 1..Len(FixedMsg) :
    /\ pc = FixedPc[k]
    /\ out' = print(out, FixedMsg[k], has_stdout)
    /\ pc' = IF k < Len(FixedMsg) THEN FixedPc[k + 1] ELSE NotFoundPc[1]
    /\ trace' = Append(trace, FixedPc[k])
    /\ UNCHANGED <<file, content, run, file0, source, prev_fixed, has_stdout>>

\* Lines 57-60: the print statement the script is at prints its line; after
\* the last one the script is over.
PrintFixed ==
  \E k \in 1..Len(FixedMsg) :
    /\ pc = FixedPc[k]
    /\ out' = print(out, FixedMsg[k], has_stdout)
    /\ pc' = IF k < Len(FixedMsg) THEN FixedPc[k + 1] ELSE "done"
    /\ trace' = Append(trace, FixedPc[k])
    /\ UNCHANGED <<file, content, run, file0, source, prev_fixed, has_stdout>>

\* Lines 57-60: the print statement the script is at raises (the stdout cannot
\* encode the line, or cannot take it); a part of the line, short of its
\* end, may have got out.
PrintFixedFail ==
  \E k \in 1..Len(FixedMsg) :
    /\ pc = FixedPc[k]
    /\ has_stdout
    /\ \E n \in 0..Len(FixedMsg[k]) :
         out' = out \o SubSeq(Printed(FixedMsg[k]), 1, n)
    /\ pc' = "fatal"
    /\ trace' = Append(trace, "print_error")
    /\ UNCHANGED <<file, content, run, file0, source, prev_fixed, has_stdout>>

\* PrintNotFound followed by one more attempt from the read on.
PrintNotFound_retry ==
  \E k \in 1..Len(NotFoundMsg) :
    /\ pc = NotFoundPc[k]
    /\ out' = print(out, NotFoundMsg[k], has_stdout)
    /\ pc' = IF k < Len(NotFoundMsg) THEN NotFoundPc[k + 1]
             ELSE IF Len(trace) < 4 THEN "read" ELSE "done"
    /\ trace' = Append(trace, NotFoundPc[k])
    /\ UNCHANGED <<file, content, run, file0, source, prev_fixed, has_stdout>>

\* Lines 62-63: the print statement the script is at prints its line; after
\* the last one the script is over.
PrintNotFound ==
  \E k \in 1..Len(NotFoundMsg) :
    /\ pc = NotFoundPc[k]
    /\ out' = print(out, NotFoundMsg[k], has_stdout)
    /\ pc' = IF k < Len(NotFoundMsg) THEN NotFoundPc[k + 1] ELSE "done"
    /\ trace' = Append(trace, NotFoundPc[k])
    /\ UNCHANGED <<file, content, run, file0, source, prev_fixed, has_stdout>>

\* Lines 62-63: the print statement the script is at raises; a part of the
\* line, short of its end, may have got out.
PrintNotFoundFail ==
  \E k \in 1..Len(NotFoundMsg) :
    /\ pc = NotFoundPc[k]
    /\ has_stdout
    /\ \E n \in 0..Len(NotFoundMsg[k]) :
         out' = out \o SubSeq(Printed(NotFoundMsg[k]), 1, n)
    /\ pc' = "fatal"
    /\ trace' = Append(trace, "print_error")
    /\ UNCHANGED <<file, content, run, file0, source, prev_fixed, has_stdout>>

\* The script, having run to its end, is started again on the file it left
\* behind.
Rerun ==
  /\ pc = "done"
  /\ run < MaxRuns
  /\ run' = run + 1
  /\ pc' = "read"
  /\ content' = <<>>
  /\ out' = <<>>
  /\ file0' = file
  /\ source' = <<>>
  /\ trace' = <<>>
  /\ prev_fixed' = (out = PrintedAll(FixedMsg))
  /\ has_stdout' \in BOOLEAN
  /\ UNCHANGED file

Next ==
  \/ Read
  \/ ReadFail
  \/ Test
  \/ Replace
  \/ OpenWrite
  \/ OpenWriteFail
  \/ Write
  \/ WriteFail
  \/ PrintFixed
  \/ PrintFixedFail
  \/ PrintNotFound
  \/ PrintNotFoundFail
  \/ Rerun

Spec == Init /\ [][Next]_vars

TypeOK ==
  /\ pc \in {"read", "test", "replace", "open_w", "write", "done", "fatal"}
             \cup {FixedPc[k] : k \in 1..Len(FixedPc)}
             \cup {NotFoundPc[k] : k \in 1..Len(NotFoundPc)}
  /\ run \in 1..MaxRuns

-----------------------------------------------------------------------------
(* Vocabulary of the properties, stated without the script's own search *)

\* The block searched for stands in s at position i, character for character.
StandsAt(s, i) ==
  /\ s[i] = old_sensor_logic[1]
  /\ s[i + 2] = old_sensor_logic[3]
  /\ SubSeq(s, i, i + Len(old_sensor_logic) - 1) = old_sensor_logic

\* The positions of s at which the block searched for stands.
Occ(s) ==
  { i \in 1..(Len(s) - Len(old_sensor_logic) + 1) : StandsAt(s, i) }

\* The block searched for stands somewhere in s.
Occurs(s) ==
  \E i \in 1..(Len(s) - Len(old_sensor_logic) + 1) : StandsAt(s, i)

\* s with the occurrence at position i replaced by the new block.
ReplacedAt(s, i) ==
  SubSeq(s, 1, i - 1) \o new_sensor_logic
    \o SubSeq(s, i + Len(old_sensor_logic), Len(s))

\* Position j of s lies inside one of the occurrences occ.
Covered(occ, j) ==
  \E i \in occ : i <= j /\ j < i + Len(old_sensor_logic)

\* Where position j of the text read lands in the text written, when each of
\* the occurrences occ before it has been replaced.
Image(occ, j) ==
  j + Cardinality({i \in occ : i < j /\ ~(j < i + Len(old_sensor_logic))})
        * (Len(new_sensor_logic) - Len(old_sensor_logic))

Has(step) == \E k \in 1..Len(trace) : trace[k] = step

Count(step) == Cardinality({k \in 1..Len(trace) : trace[k] = step})

\* The whole of each report, as stdout receives it.
FixedReport == PrintedAll(FixedMsg)
NotFoundReport == PrintedAll(NotFoundMsg)

\* a is the beginning of b.
IsPrefix(a, b) == Len(a) <= Len(b) /\ a = SubSeq(b, 1, Len(a))

\* Some statement of this run has raised.
Raised == \E k \in 1..Len(trace) :
  trace[k] \in {"read_error", "open_w_error", "write_error", "print_error"}

-----------------------------------------------------------------------------
(* Properties *)

\* C1: when the block searched for occurs exactly once in the text read, a
\* run that completes leaves the file equal to that text with the occurrence
\* replaced by the new block, has executed the four success prints, and,
\* started with a stdout, has printed the success lines.
C1_ReplacesSingleOccurrence ==
  LET occ == Occ(source)
  IN  (pc = "done" /\ Cardinality(occ) = 1) =>
        /\ file = ReplacedAt(source, Min(occ))
        /\ \A k \in 1..Len(FixedPc) : Count(FixedPc[k]) = 1
        /\ has_stdout => out = FixedReport

\* A completed run on a text holding the block once, after other text.
C1_Witness ==
  LET occ == Occ(source)
  IN  /\ pc = "done"
      /\ out = FixedReport
      /\ Cardinality(occ) = 1
      /\ Min(occ) > 1

\* C2: when the block searched for does not occur in the text read, the file
\* is the same in every state of the run and no open for writing is
\* attempted; the run does not end fatally unless a statement raised, which
\* on this path only a print can; and once complete it has executed the two
\* failure prints and, started with a stdout, has printed the failure lines.
C2_AbsentLeavesFileAlone ==
  \/ /\ file = file0
     /\ ~Has("open_w")
     /\ ~Has("open_w_error")
     /\ pc = "fatal" => (Raised /\ trace[Len(trace)] = "print_error")
     /\ IsPrefix(out, NotFoundReport)
     /\ pc = "done" =>
          /\ \A k \in 1..Len(NotFoundPc) : Count(NotFoundPc[k]) = 1
          /\ has_stdout => out = NotFoundReport
  \/ ~Has("read")
  \/ Occurs(source)

\* A completed first run on a non-empty text without the block.
C2_Witness ==
  /\ pc = "done"
  /\ run = 1
  /\ ~Occurs(source)
  /\ Len(source) > Len(old_sensor_logic)
  /\ out = NotFoundReport

\* C4 as claimed: what is written is the text read with only its first
\* occurrence replaced.
C4_FirstOccurrenceOnly ==
  LET occ == Occ(source)
  IN  (Has("write") /\ occ # {}) => file = ReplacedAt(source, Min(occ))

\* C4 as amended: what is written is the text read with every occurrence
\* replaced: the new block stands where each occurrence stood, the later ones
\* included, and the length has changed by the difference of the two blocks
\* once per occurrence.
C4_EveryOccurrenceReplaced ==
  LET occ == Occ(source)
  IN  (Has("write") /\ occ # {}) =>
        /\ Len(file) = Len(source)
             + Cardinality(occ) * (Len(new_sensor_logic) - Len(old_sensor_logic))
        /\ \A i \in occ :
             SubSeq(file, Image(occ, i), Image(occ, i) + Len(new_sensor_logic) - 1)
               = new_sensor_logic
        /\ ~Occurs(file)

\* The file has been written from a text that held the block more than once.
C4_Witness ==
  /\ Has("write")
  /\ Cardinality(Occ(source)) >= 2

\* C6: every character of the text read that lies outside the occurrences of
\* the block is written back, in the same order; a text that differs from
\* the block in one character is not an occurrence and is written back as
\* it was.
C6_OutsideOccurrencesPreserved ==
  LET occ == Occ(source)
  IN  /\ Has("write") =>
           \A j \in 1..Len(source) :
             ~Covered(occ, j) => file[Image(occ, j)] = source[j]
      /\ pc = "open_w" =>
           \A j \in 1..Len(source) :
             ~Covered(occ, j) => content[Image(occ, j)] = source[j]
      /\ Has("write") =>
           \A j \in 1..(Len(source) - Len(NearMiss) + 1) :
             (source[j] = NearMiss[1]
               /\ SubSeq(source, j, j + Len(NearMiss) - 1) = NearMiss)
             => SubSeq(file, Image(occ, j), Image(occ, j) + Len(NearMiss) - 1) = NearMiss

\* The file has been written from a text that holds the block, a near miss of
\* the block, and text outside both.
C6_Witness ==
  /\ Has("write")
  /\ Occurs(source)
  /\ \E j \in 1..(Len(source) - Len(NearMiss) + 1) :
       /\ source[j] = NearMiss[1]
       /\ SubSeq(source, j, j + Len(NearMiss) - 1) = NearMiss
  /\ Len(source) >= Len(old_sensor_logic) + Len(NearMiss)

\* C3: a run that follows a run that printed the success lines finds no
\* occurrence of the block (neither in the file as stored nor in the text it
\* reads), leaves the file as it found it in every state, and once complete
\* has executed the failure prints and, started with a stdout, has printed
\* the failure lines; and a first run on a text that holds the new block and
\* not the old one does the same.
C3_SecondRunFails ==
  /\ (pc = "done" /\ out = FixedReport) =>
       /\ ~Occurs(file)
       /\ ~Occurs(TextRead(file))
  /\ prev_fixed =>
       /\ file = file0
       /\ pc # "fatal" => ~Occurs(file)
       /\ Has("read") => ~Occurs(source)
       /\ ~Has("open_w")
       /\ pc = "done" =>
            /\ Has(NotFoundPc[Len(NotFoundPc)])
            /\ has_stdout => out = NotFoundReport
  /\ (run = 1 /\ pc = "done" /\ Find(source, new_sensor_logic, 1) # 0
        /\ ~Occurs(source)) =>
       /\ file = file0
       /\ Has(NotFoundPc[Len(NotFoundPc)])
       /\ has_stdout => out = NotFoundReport

\* A second run has completed after a first run that replaced the block in a
\* text where more text followed it.
C3_Witness ==
  /\ run = 2
  /\ prev_fixed
  /\ pc = "done"
  /\ out = NotFoundReport
  /\ Len(file) > Len(new_sensor_logic)
  /\ Find(file, new_sensor_logic, 1) # 0

\* C5: in a run the file is opened for writing at most once and written at
\* most once, and only after the block was found in the text read by that
\* run; the text written is the text read with the block replaced by the new
\* block; and no other step of the script changes the file.
C5_AtMostOneOverwrite ==
  /\ [](/\ Count("open_w") + Count("open_w_error") <= 1
        /\ Count("write") + Count("write_error") <= 1
        /\ (Has("open_w") \/ Has("open_w_error")) =>
             (Has("read") /\ Occurs(source))
        /\ Has("write") =>
             /\ file = content
             /\ ~Occurs(file)
             /\ Len(file) = Len(source) + Cardinality(Occ(source))
                  * (Len(new_sensor_logic) - Len(old_sensor_logic)))
  /\ [][file' # file => pc \in {"open_w", "write"}]_vars

\* The file has been overwritten in a run and holds something else than before.
C5_Witness ==
  /\ Has("write")
  /\ file # file0
  /\ Occurs(source)

\* C7: when the read fails the run is over: it is in its fatal state, the
\* failed read is the only step it has taken, the file is as it was and
\* nothing has been printed.
C7_ReadFailureIsFatal ==
  (trace # <<>> /\ trace[1] = "read_error") =>
    /\ pc = "fatal"
    /\ trace = <<"read_error">>
    /\ file = file0
    /\ out = <<>>

\* The read has failed on a file that holds the block.
C7_Witness ==
  /\ pc = "fatal"
  /\ trace = <<"read_error">>
  /\ Occurs(file)

\* C8: what a run has printed is always the beginning of one of the two
\* reports, never one report after the other; a run that completes, no
\* statement having raised, has executed the prints of exactly one of the two
\* blocks, the success prints exactly when the block was found and the file
\* overwritten, the failure prints exactly when the block was not found; and,
\* started with a stdout, it has printed the whole of that one report: the
\* four success lines or the two failure lines.
C8_ExactlyOneReport ==
  /\ Len(FixedMsg) = 4
  /\ Len(NotFoundMsg) = 2
  /\ IsPrefix(out, FixedReport) \/ IsPrefix(out, NotFoundReport)
  /\ pc = "done" =>
       /\ ~Raised
       /\ Has(FixedPc[1]) # Has(NotFoundPc[1])
       /\ Has(FixedPc[1]) <=> (Occurs(source) /\ Has("write"))
       /\ Has(NotFoundPc[1]) <=> ~Occurs(source)
       /\ has_stdout =>
            /\ out \in {FixedReport, NotFoundReport}
            /\ (out = FixedReport) <=> Has(FixedPc[1])
            /\ (out = NotFoundReport) <=> Has(NotFoundPc[1])
       /\ ~has_stdout => out = <<>>

\* Both reports have been seen: this run printed the failure lines after the
\* run before it printed the success lines.
C8_Witness ==
  /\ pc = "done"
  /\ out = NotFoundReport
  /\ prev_fixed

\* The two orders in which a run executes its statements when none raises.
Passes ==
  { <<"read", "test", "replace", "open_w", "write">> \o FixedPc,
    <<"read", "test">> \o NotFoundPc }

\* What the trace records when a statement raises.
ErrorOf(step) ==
  CASE step = "read" -> "read_error"
    [] step = "open_w" -> "open_w_error"
    [] step = "write" -> "write_error"
    [] step = "test" -> "none"
    [] step = "replace" -> "none"
    [] OTHER -> "print_error"

\* t is the beginning of the pass p, or the beginning of p up to a statement
\* that raised in place of executing.
Along(t, p) ==
  /\ Len(t) <= Len(p)
  /\ \/ t = SubSeq(p, 1, Len(t))
     \/ /\ t # <<>>
        /\ SubSeq(t, 1, Len(t) - 1) = SubSeq(p, 1, Len(t) - 1)
        /\ t[Len(t)] = ErrorOf(p[Len(t)])

\* The number of statements between statement p and the end of the longest
\* pass that goes through it.
StepsLeft(p) ==
  CASE p = "read" -> 9
    [] p = "test" -> 8
    [] p = "replace" -> 7
    [] p = "open_w" -> 6
    [] p = "write" -> 5
    [] p = "print_57" -> 4
    [] p = "print_58" -> 3
    [] p = "print_59" -> 2
    [] p = "print_60" -> 1
    [] p = "print_62" -> 2
    [] p = "print_63" -> 1
    [] OTHER -> 0

\* C9: the statements a run has executed are always the beginning of one
\* linear pass (read, test, then either replace, open, write and the success
\* lines, or the failure lines), cut short at most by one statement that
\* raised, so none is executed twice and the test is the only branch; a run
\* that is over has gone through a whole pass or has stopped at the statement
\* that raised; and the run terminates: every step of it brings it nearer the
\* end of its pass, and until it is over there is a statement to execute.
C9_SingleLinearPass ==
  /\ [](\E p \in Passes : Along(trace, p))
  /\ [](pc = "done" => trace \in Passes)
  /\ [](pc = "fatal" => (trace # <<>> /\ trace \notin Passes /\ Raised))
  /\ [](pc \notin {"done", "fatal"} =>
          /\ StepsLeft(pc) > 0
          /\ ENABLED (Read \/ Test \/ Replace \/ OpenWrite \/ Write
                        \/ PrintFixed \/ PrintNotFound))
  /\ [][run' = run => StepsLeft(pc') < StepsLeft(pc)]_vars

\* A run has gone through the whole of the longest pass.
C9_Witness ==
  /\ pc = "done"
  /\ trace = <<"read", "test", "replace", "open_w", "write">> \o FixedPc

\* C10: once any part of the success report is printed the file has been
\* written and holds the whole of the patched text; a run in which the open
\* for writing or the write failed is in its fatal state, took no step after
\* the failure and has printed nothing.
C10_SuccessOnlyAfterWrite ==
  /\ (out # <<>> /\ out[1] = FixedMsg[1][1]) =>
       /\ Has("write")
       /\ file = TextWrite(content)
       /\ ~Occurs(file)
       /\ Len(file) = Len(source) + Cardinality(Occ(source))
            * (Len(new_sensor_logic) - Len(old_sensor_logic))
  /\ (Has("open_w_error") \/ Has("write_error")) =>
       /\ pc = "fatal"
       /\ trace[Len(trace)] \in {"open_w_error", "write_error"}
       /\ out = <<>>

\* The write has failed after the file was truncated, with the block found,
\* leaving a part of the patched text that is neither empty nor half of it.
C10_Witness ==
  /\ pc = "fatal"
  /\ Has("write_error")
  /\ Occurs(source)
  /\ file # file0
  /\ Len(file) = 100

=============================================================================
